---- MODULE Spec2Model ----
(***************************************************************************)
(* Model of the senswap-farming program: the reward-accounting patterns of *)
(* helper/pattern.rs and the instruction handlers of processor.rs that     *)
(* drive them (initialize_stake_pool, initialize_accounts, stake, unstake, *)
(* harvest, freeze_stake_pool, thaw_stake_pool).                           *)
(*                                                                         *)
(* Scaling.  TLC evaluates 32-bit integers, so the integer widths and the  *)
(* fixed-point scale of the program are scaled down together, keeping      *)
(* their order:  PRECISION < U64Max,  PRECISION * U64Max < U128Max,        *)
(* U64Max * U64Max <= U128Max,  I128Max = (U128Max - 1) / 2.               *)
(*   program: PRECISION = 10^18, u64 = 64 bits, u128 / i128 = 128 bits     *)
(*   model:   PRECISION = 2,      u64 = 3 bits,  u128 / i128 = 6 bits      *)
(* Every behaviour the model is used to refute is replayed in the          *)
(* program's own widths before it is reported.                             *)
(***************************************************************************)
EXTENDS Integers, Sequences, FiniteSets, TLC

\* pattern.rs:5  (10^18 in the program, see Scaling)
PRECISION == 2
\* u64::MAX, u128::MAX, i128::MAX (see Scaling)
U64Max == 7
U128Max == 63
I128Max == 31
I128Min == -I128Max - 1

\* Bounds of the model
MaxTime == 2        \* the clock runs from 0 to MaxTime seconds
MaxReward == 2      \* reward given to initialize_stake_pool
MaxAmount == 3      \* amount given to stake / unstake
MaxArg == 3         \* arguments of a direct call of a pattern function
\* the rewards transferred are counted up to one more than the most a pool
\* can owe, U64Max a period
MaxPaid == U64Max * MaxTime + 1

Users == {"u1", "u2"}
\* the arguments given to initialize_stake_pool: no reward, small ones and
\* the largest u64; no period, a period of one second and a longer one
Rewards == (0..MaxReward) \cup {U64Max}
Periods == {0, 1, 2}
\* the keys that can own a pool; pools are created by the first of them
\* (the keys are interchangeable) and handed over with
\* transfer_stake_pool_ownership
Owners == {"o1", "o2"}
Creator == "o1"

VARIABLES
  now,      \* Clock::get().unix_timestamp
  pool,     \* the StakePool account
  debts,    \* the Debt account of each user
  shares,   \* the amount of each user's share token account
  last,     \* outcome of the most recent instruction
  call,     \* a direct call of a pattern function: its arguments and result
  share_lamports, \* the lamports of each user's share token account
  ledger    \* the rewards transferred by the pool and the users who staked
            \* at the current delay, each in the specification that keeps it

vars == <<now, pool, debts, shares, last, call, share_lamports, ledger>>

(***************************************************************************)
(* Arithmetic of the program                                               *)
(***************************************************************************)

\* BigInt / BigInt truncates toward zero
BigDiv(a, b) == IF a >= 0 THEN a \div b ELSE -((-a) \div b)

\* BigInt::to_u64, to_u128, to_i128: Some exactly when the value fits
FitsU64(x) == 0 <= x /\ x <= U64Max
FitsU128(x) == 0 <= x /\ x <= U128Max
FitsI128(x) == I128Min <= x /\ x <= I128Max

\* Option<(u64, u128, i128)>
None == [some |-> FALSE, shares |-> 0, debt |-> 0, compensation |-> 0]
Some(s, d, c) == [some |-> TRUE, shares |-> s, debt |-> d, compensation |-> c]

\* fractionalize_reward that rounds the fraction up
fractionalize_round_up(reward, total_shares) ==
  IF total_shares = 0 THEN 0
  ELSE BigDiv(PRECISION * reward + total_shares - 1, total_shares)

\* Pattern::fractionalize_reward: the fraction (the precision is PRECISION)
fractionalize_reward(reward, total_shares) ==
  IF total_shares = 0 THEN 0
  ELSE BigDiv(PRECISION * reward, total_shares)

\* the debt expression shared by fully_havest, fully_unstake and fully_stake
DebtOf(fraction, delay, compensation, s) ==
  BigDiv((fraction * delay + compensation) * s, PRECISION)

\* fully_havest without its guard debt > new_debt
havest_unguarded(s, debt, compensation, delay, reward, current_total_shares, next_total_shares) ==
  IF current_total_shares # next_total_shares THEN None
  ELSE LET current_fraction == fractionalize_reward(reward, current_total_shares)
           new_debt == DebtOf(current_fraction, delay, compensation, s)
       IN  IF ~FitsU128(new_debt) THEN None
           ELSE IF ~FitsU64(s) \/ ~FitsI128(compensation) THEN None
           ELSE Some(s, new_debt, compensation)

\* fully_havest that takes the elapsed delay off the compensation
havest_delay_subtracted(s, debt, compensation, delay, reward, current_total_shares, next_total_shares) ==
  IF current_total_shares # next_total_shares THEN None
  ELSE LET current_fraction == fractionalize_reward(reward, current_total_shares)
           new_debt == DebtOf(-current_fraction, delay, compensation, s)
       IN  IF ~FitsU128(new_debt) THEN None
           ELSE IF debt > new_debt THEN None
           ELSE IF ~FitsU64(s) \/ ~FitsI128(compensation) THEN None
           ELSE Some(s, new_debt, compensation)

\* Pattern::fully_havest
fully_havest(s, debt, compensation, delay, reward, current_total_shares, next_total_shares) ==
  IF current_total_shares # next_total_shares THEN None
  ELSE LET current_fraction == fractionalize_reward(reward, current_total_shares)
           new_debt == DebtOf(current_fraction, delay, compensation, s)
       IN  IF ~FitsU128(new_debt) THEN None
           ELSE IF debt > new_debt THEN None
           ELSE IF ~FitsU64(s) \/ ~FitsI128(compensation) THEN None
           ELSE Some(s, new_debt, compensation)

\* fully_unstake that does not compare the debt with the expected debt
unstake_unchecked_debt(s, debt, compensation, delay, reward, current_total_shares, next_total_shares) ==
  IF next_total_shares > current_total_shares THEN None
  ELSE LET current_fraction == fractionalize_reward(reward, current_total_shares)
           next_fraction == fractionalize_reward(reward, next_total_shares)
           expected_debt == DebtOf(current_fraction, delay, compensation, s)
           new_compensation ==
             IF next_fraction = 0 THEN 0
             ELSE compensation - (next_fraction - current_fraction) * delay
       IN  IF ~FitsU128(expected_debt) THEN None
           ELSE IF next_fraction # 0
                   /\ (~FitsI128(compensation) \/ ~FitsU128(current_fraction)
                       \/ ~FitsU128(next_fraction)) THEN None
           ELSE IF ~FitsI128(new_compensation) THEN None
           ELSE Some(0, 0, new_compensation)

\* fully_unstake that accepts a growing total
unstake_any_direction(s, debt, compensation, delay, reward, current_total_shares, next_total_shares) ==
  IF FALSE THEN None
  ELSE LET current_fraction == fractionalize_reward(reward, current_total_shares)
           next_fraction == fractionalize_reward(reward, next_total_shares)
           expected_debt == DebtOf(current_fraction, delay, compensation, s)
           new_compensation ==
             IF next_fraction = 0 THEN 0
             ELSE compensation - (next_fraction - current_fraction) * delay
       IN  IF ~FitsU128(expected_debt) THEN None
           ELSE IF debt # expected_debt THEN None
           ELSE IF next_fraction # 0
                   /\ (~FitsI128(compensation) \/ ~FitsU128(current_fraction)
                       \/ ~FitsU128(next_fraction)) THEN None
           ELSE IF ~FitsI128(new_compensation) THEN None
           ELSE Some(0, 0, new_compensation)

\* fully_unstake that adds the change of the fraction to the compensation
unstake_compensation_added(s, debt, compensation, delay, reward, current_total_shares, next_total_shares) ==
  IF next_total_shares > current_total_shares THEN None
  ELSE LET current_fraction == fractionalize_reward(reward, current_total_shares)
           next_fraction == fractionalize_reward(reward, next_total_shares)
           expected_debt == DebtOf(current_fraction, delay, compensation, s)
           new_compensation ==
             IF next_fraction = 0 THEN 0
             ELSE compensation + (next_fraction - current_fraction) * delay
       IN  IF ~FitsU128(expected_debt) THEN None
           ELSE IF debt # expected_debt THEN None
           ELSE IF next_fraction # 0
                   /\ (~FitsI128(compensation) \/ ~FitsU128(current_fraction)
                       \/ ~FitsU128(next_fraction)) THEN None
           ELSE IF ~FitsI128(new_compensation) THEN None
           ELSE Some(0, 0, new_compensation)

\* Pattern::fully_unstake
fully_unstake(s, debt, compensation, delay, reward, current_total_shares, next_total_shares) ==
  IF next_total_shares > current_total_shares THEN None
  ELSE LET current_fraction == fractionalize_reward(reward, current_total_shares)
           next_fraction == fractionalize_reward(reward, next_total_shares)
           expected_debt == DebtOf(current_fraction, delay, compensation, s)
           new_compensation ==
             IF next_fraction = 0 THEN 0
             ELSE compensation - (next_fraction - current_fraction) * delay
       IN  IF ~FitsU128(expected_debt) THEN None
           ELSE IF debt # expected_debt THEN None
           ELSE IF next_fraction # 0
                   /\ (~FitsI128(compensation) \/ ~FitsU128(current_fraction)
                       \/ ~FitsU128(next_fraction)) THEN None
           ELSE IF ~FitsI128(new_compensation) THEN None
           ELSE Some(0, 0, new_compensation)

\* fully_stake that accepts a debt that is not zero
stake_any_debt(s, debt, compensation, delay, reward, current_total_shares, next_total_shares) ==
  IF current_total_shares > next_total_shares THEN None
  ELSE LET current_fraction == fractionalize_reward(reward, current_total_shares)
           next_fraction == fractionalize_reward(reward, next_total_shares)
           new_compensation ==
             IF current_fraction = 0 THEN 0
             ELSE compensation + (current_fraction - next_fraction) * delay
           new_debt == DebtOf(next_fraction, delay, new_compensation, s)
       IN  IF current_fraction # 0
              /\ (~FitsI128(compensation) \/ ~FitsU128(current_fraction)
                  \/ ~FitsU128(next_fraction)) THEN None
           ELSE IF ~FitsU128(new_debt) \/ ~FitsI128(new_compensation) THEN None
           ELSE Some(s, new_debt, new_compensation)

\* fully_stake with the two fractions of the compensation swapped
stake_swapped_fractions(s, debt, compensation, delay, reward, current_total_shares, next_total_shares) ==
  IF current_total_shares > next_total_shares \/ debt # 0 THEN None
  ELSE LET current_fraction == fractionalize_reward(reward, current_total_shares)
           next_fraction == fractionalize_reward(reward, next_total_shares)
           new_compensation ==
             IF current_fraction = 0 THEN 0
             ELSE compensation + (next_fraction - current_fraction) * delay
           new_debt == DebtOf(next_fraction, delay, new_compensation, s)
       IN  IF current_fraction # 0
              /\ (~FitsI128(compensation) \/ ~FitsU128(current_fraction)
                  \/ ~FitsU128(next_fraction)) THEN None
           ELSE IF ~FitsU128(new_debt) \/ ~FitsI128(new_compensation) THEN None
           ELSE Some(s, new_debt, new_compensation)

\* fully_stake that computes the debt at the fraction before the deposit
stake_debt_at_current_fraction(s, debt, compensation, delay, reward, current_total_shares, next_total_shares) ==
  IF current_total_shares > next_total_shares \/ debt # 0 THEN None
  ELSE LET current_fraction == fractionalize_reward(reward, current_total_shares)
           next_fraction == fractionalize_reward(reward, next_total_shares)
           new_compensation ==
             IF current_fraction = 0 THEN 0
             ELSE compensation + (current_fraction - next_fraction) * delay
           new_debt == DebtOf(current_fraction, delay, new_compensation, s)
       IN  IF current_fraction # 0
              /\ (~FitsI128(compensation) \/ ~FitsU128(current_fraction)
                  \/ ~FitsU128(next_fraction)) THEN None
           ELSE IF ~FitsU128(new_debt) \/ ~FitsI128(new_compensation) THEN None
           ELSE Some(s, new_debt, new_compensation)

\* Pattern::fully_stake
fully_stake(s, debt, compensation, delay, reward, current_total_shares, next_total_shares) ==
  IF current_total_shares > next_total_shares \/ debt # 0 THEN None
  ELSE LET current_fraction == fractionalize_reward(reward, current_total_shares)
           next_fraction == fractionalize_reward(reward, next_total_shares)
           new_compensation ==
             IF current_fraction = 0 THEN 0
             ELSE compensation + (current_fraction - next_fraction) * delay
           new_debt == DebtOf(next_fraction, delay, new_compensation, s)
       IN  IF current_fraction # 0
              /\ (~FitsI128(compensation) \/ ~FitsU128(current_fraction)
                  \/ ~FitsU128(next_fraction)) THEN None
           ELSE IF ~FitsU128(new_debt) \/ ~FitsI128(new_compensation) THEN None
           ELSE Some(s, new_debt, new_compensation)

(***************************************************************************)
(* The instruction handlers of processor.rs                                *)
(***************************************************************************)

\* Processor::estimate_delay; the division panics when period = 0
estimate_delay(p) == (now - p.genesis_timestamp) \div p.period

\* what a handler hands back: the error ("Ok" on success), the pattern
\* functions it called, the reward it transfers and the values it packs
Outcome(err, steps, yeild, debt, total_shares, compensation) ==
  [err |-> err, steps |-> steps, yeild |-> yeild, debt |-> debt,
   total_shares |-> total_shares, compensation |-> compensation]

Failed(err, steps) == Outcome(err, steps, 0, 0, 0, 0)

\* `as u64` of a u128
AsU64(x) == x % (U64Max + 1)

\* the accounts a handler unpacks: StakePool::unpack, Account::unpack and
\* Debt::unpack need initialized accounts (processor.rs:333-335); a token
\* account without lamports has been closed and holds no data
Unpacked(u) ==
  /\ pool.state # "Uninitialized"
  /\ share_lamports[u] # 0
  /\ debts[u].is_initialized

\* the specifications that keep no ledger
NoLedger == [keeps |-> {}, paid |-> 0, staked |-> {}]

\* XSPLT::transfer of the reward to the user (processor.rs:414-421, 537-544,
\* 621-628) at the end of a stake, unstake or harvest that succeeded: the
\* SEN transferred out of treasury_sen so far, counted up to MaxPaid, and
\* the users who have staked at the current delay
Transferred(op, u, yeild) ==
  [keeps |-> ledger.keeps,
   paid |-> IF "paid" \notin ledger.keeps THEN ledger.paid
            ELSE IF ledger.paid + yeild > MaxPaid THEN MaxPaid
            ELSE ledger.paid + yeild,
   staked |-> IF "staked" \in ledger.keeps /\ op = "stake"
              THEN ledger.staked \cup {u}
              ELSE ledger.staked]

\* stake without the check of the amount
StakeRunAcceptsZero(u, amount) ==
  LET delay == estimate_delay(pool)
      reward == pool.reward
      current_total_shares == pool.total_shares
      h == fully_havest(shares[u], debts[u].debt, pool.compensation, delay, reward,
                        current_total_shares, current_total_shares)
      yeild == AsU64(h.debt - debts[u].debt)
      next1 == current_total_shares - h.shares
      w == fully_unstake(h.shares, h.debt, h.compensation, delay, reward,
                         current_total_shares, next1)
      new_shares == shares[u] + amount
      next2 == next1 + new_shares
      st == fully_stake(new_shares, w.debt, w.compensation, delay, reward,
                        next1, next2)
  IN  IF ~Unpacked(u) THEN Failed("UninitializedAccount", <<>>)
      ELSE IF pool.state = "Frozen" THEN Failed("FrozenPool", <<>>)
      ELSE IF pool.period = 0 THEN Failed("Panic", <<>>)
      ELSE IF ~h.some THEN Failed("Overflow", <<"harvest">>)
      ELSE IF h.debt < debts[u].debt THEN Failed("Overflow", <<"harvest">>)
      ELSE IF next1 < 0 THEN Failed("Overflow", <<"harvest">>)
      ELSE IF ~w.some THEN Failed("Overflow", <<"harvest", "unstake">>)
      ELSE IF new_shares > U64Max THEN Failed("Overflow", <<"harvest", "unstake">>)
      ELSE IF next2 > U64Max THEN Failed("Overflow", <<"harvest", "unstake">>)
      ELSE IF ~st.some THEN Failed("Overflow", <<"harvest", "unstake", "stake">>)
      ELSE Outcome("Ok", <<"harvest", "unstake", "stake">>, yeild, st.debt,
                   next2, st.compensation)

\* Processor::stake up to its last fallible step (processor.rs:329-411)
StakeRun(u, amount) ==
  LET delay == estimate_delay(pool)
      reward == pool.reward
      current_total_shares == pool.total_shares
      h == fully_havest(shares[u], debts[u].debt, pool.compensation, delay, reward,
                        current_total_shares, current_total_shares)
      yeild == AsU64(h.debt - debts[u].debt)
      next1 == current_total_shares - h.shares
      w == fully_unstake(h.shares, h.debt, h.compensation, delay, reward,
                         current_total_shares, next1)
      new_shares == shares[u] + amount
      next2 == next1 + new_shares
      st == fully_stake(new_shares, w.debt, w.compensation, delay, reward,
                        next1, next2)
  IN  IF ~Unpacked(u) THEN Failed("UninitializedAccount", <<>>)
      ELSE IF pool.state = "Frozen" THEN Failed("FrozenPool", <<>>)
      ELSE IF amount = 0 THEN Failed("ZeroValue", <<>>)
      ELSE IF pool.period = 0 THEN Failed("Panic", <<>>)
      ELSE IF ~h.some THEN Failed("Overflow", <<"harvest">>)
      ELSE IF h.debt < debts[u].debt THEN Failed("Overflow", <<"harvest">>)
      ELSE IF next1 < 0 THEN Failed("Overflow", <<"harvest">>)
      ELSE IF ~w.some THEN Failed("Overflow", <<"harvest", "unstake">>)
      ELSE IF new_shares > U64Max THEN Failed("Overflow", <<"harvest", "unstake">>)
      ELSE IF next2 > U64Max THEN Failed("Overflow", <<"harvest", "unstake">>)
      ELSE IF ~st.some THEN Failed("Overflow", <<"harvest", "unstake", "stake">>)
      ELSE Outcome("Ok", <<"harvest", "unstake", "stake">>, yeild, st.debt,
                   next2, st.compensation)

\* unstake without the check of is_frozen
UnstakeRunIgnoresFrozen(u, amount) ==
  LET delay == estimate_delay(pool)
      reward == pool.reward
      current_total_shares == pool.total_shares
      h == fully_havest(shares[u], debts[u].debt, pool.compensation, delay, reward,
                        current_total_shares, current_total_shares)
      yeild == AsU64(h.debt - debts[u].debt)
      next1 == current_total_shares - h.shares
      w == fully_unstake(h.shares, h.debt, h.compensation, delay, reward,
                         current_total_shares, next1)
      new_shares == shares[u] - amount
      next2 == next1 + new_shares
      st == fully_stake(new_shares, w.debt, w.compensation, delay, reward,
                        next1, next2)
  IN  IF ~Unpacked(u) THEN Failed("UninitializedAccount", <<>>)
      ELSE IF amount = 0 THEN Failed("ZeroValue", <<>>)
      ELSE IF pool.period = 0 THEN Failed("Panic", <<>>)
      ELSE IF ~h.some THEN Failed("Overflow", <<"harvest">>)
      ELSE IF h.debt < debts[u].debt THEN Failed("Overflow", <<"harvest">>)
      ELSE IF next1 < 0 THEN Failed("Overflow", <<"harvest">>)
      ELSE IF ~w.some THEN Failed("Overflow", <<"harvest", "unstake">>)
      ELSE IF new_shares < 0 THEN Failed("Overflow", <<"harvest", "unstake">>)
      ELSE IF next2 > U64Max THEN Failed("Overflow", <<"harvest", "unstake">>)
      ELSE IF ~st.some THEN Failed("Overflow", <<"harvest", "unstake", "stake">>)
      ELSE Outcome("Ok", <<"harvest", "unstake", "stake">>, yeild, st.debt,
                   next2, st.compensation)

\* Processor::unstake up to its last fallible step (processor.rs:461-534)
UnstakeRun(u, amount) ==
  LET delay == estimate_delay(pool)
      reward == pool.reward
      current_total_shares == pool.total_shares
      h == fully_havest(shares[u], debts[u].debt, pool.compensation, delay, reward,
                        current_total_shares, current_total_shares)
      yeild == AsU64(h.debt - debts[u].debt)
      next1 == current_total_shares - h.shares
      w == fully_unstake(h.shares, h.debt, h.compensation, delay, reward,
                         current_total_shares, next1)
      new_shares == shares[u] - amount
      next2 == next1 + new_shares
      st == fully_stake(new_shares, w.debt, w.compensation, delay, reward,
                        next1, next2)
  IN  IF ~Unpacked(u) THEN Failed("UninitializedAccount", <<>>)
      ELSE IF pool.state = "Frozen" THEN Failed("FrozenPool", <<>>)
      ELSE IF amount = 0 THEN Failed("ZeroValue", <<>>)
      ELSE IF pool.period = 0 THEN Failed("Panic", <<>>)
      ELSE IF ~h.some THEN Failed("Overflow", <<"harvest">>)
      ELSE IF h.debt < debts[u].debt THEN Failed("Overflow", <<"harvest">>)
      ELSE IF next1 < 0 THEN Failed("Overflow", <<"harvest">>)
      ELSE IF ~w.some THEN Failed("Overflow", <<"harvest", "unstake">>)
      ELSE IF new_shares < 0 THEN Failed("Overflow", <<"harvest", "unstake">>)
      ELSE IF next2 > U64Max THEN Failed("Overflow", <<"harvest", "unstake">>)
      ELSE IF ~st.some THEN Failed("Overflow", <<"harvest", "unstake", "stake">>)
      ELSE Outcome("Ok", <<"harvest", "unstake", "stake">>, yeild, st.debt,
                   next2, st.compensation)

\* harvest that fails on a pool without shares
HarvestRunRejectsEmpty(u) ==
  LET delay == estimate_delay(pool)
      current_total_shares == pool.total_shares
      h == fully_havest(shares[u], debts[u].debt, pool.compensation, delay,
                        pool.reward, current_total_shares, current_total_shares)
      yeild == AsU64(h.debt - debts[u].debt)
  IN  IF ~Unpacked(u) THEN Failed("UninitializedAccount", <<>>)
      ELSE IF pool.state = "Frozen" THEN Failed("FrozenPool", <<>>)
      ELSE IF pool.period = 0 THEN Failed("Panic", <<>>)
      ELSE IF current_total_shares = 0 THEN Failed("Overflow", <<"harvest">>)
      ELSE IF ~h.some THEN Failed("Overflow", <<"harvest">>)
      ELSE IF h.debt < debts[u].debt THEN Failed("Overflow", <<"harvest">>)
      ELSE Outcome("Ok", <<"harvest">>, yeild, h.debt, current_total_shares,
                   h.compensation)

\* Processor::harvest up to its last fallible step (processor.rs:582-618)
HarvestRun(u) ==
  LET delay == estimate_delay(pool)
      current_total_shares == pool.total_shares
      h == fully_havest(shares[u], debts[u].debt, pool.compensation, delay,
                        pool.reward, current_total_shares, current_total_shares)
      yeild == AsU64(h.debt - debts[u].debt)
  IN  IF ~Unpacked(u) THEN Failed("UninitializedAccount", <<>>)
      ELSE IF pool.state = "Frozen" THEN Failed("FrozenPool", <<>>)
      ELSE IF pool.period = 0 THEN Failed("Panic", <<>>)
      ELSE IF ~h.some THEN Failed("Overflow", <<"harvest">>)
      ELSE IF h.debt < debts[u].debt THEN Failed("Overflow", <<"harvest">>)
      ELSE Outcome("Ok", <<"harvest">>, yeild, h.debt, current_total_shares,
                   h.compensation)

\* the most recent successful stake, unstake or harvest (a failed
\* instruction leaves nothing behind), and the users who have harvested at
\* the current delay since the total shares last changed
Done(op, who) ==
  [op |-> op,
   settled |-> IF op = "harvest" THEN last.settled \cup {who} ELSE {}]

NoDone == [op |-> "none", settled |-> {}]

\* no pattern function called directly
NoArgs == [shares |-> 0, debt |-> 0, compensation |-> 0, delay |-> 0, reward |-> 0,
           current_total_shares |-> 0, next_total_shares |-> 0]
NoCall == [fn |-> "none", args |-> NoArgs, out |-> None]

Init ==
  /\ now = 0
  /\ pool = [state |-> "Uninitialized", owner |-> "none", genesis_timestamp |-> 0,
             total_shares |-> 0, reward |-> 0, period |-> 0, compensation |-> 0]
  /\ debts = [u \in Users |-> [debt |-> 0, is_initialized |-> FALSE]]
  /\ shares = [u \in Users |-> 0]
  /\ last = NoDone
  /\ call = NoCall
  /\ share_lamports = [u \in Users |-> 0]
  /\ ledger = NoLedger

\* the clock of the cluster advances; the handlers read it only as
\* now - genesis_timestamp, so the time before the pool exists is left out;
\* a new delay empties the set of the users settled at the current delay
Tick ==
  /\ pool.state # "Uninitialized"
  /\ now < MaxTime
  /\ now' = now + 1
  /\ last' = IF pool.period # 0
                 /\ (now + 1 - pool.genesis_timestamp) \div pool.period
                      # estimate_delay(pool)
              THEN [last EXCEPT !.settled = {}]
              ELSE last
  /\ ledger' = IF pool.period # 0
                   /\ (now + 1 - pool.genesis_timestamp) \div pool.period
                        # estimate_delay(pool)
                THEN [ledger EXCEPT !.staked = {}]
                ELSE ledger
  /\ UNCHANGED <<pool, debts, shares, call, share_lamports>>

\* Processor::initialize_stake_pool
InitializeStakePoolRun(reward, period) ==
  IF pool.state # "Uninitialized" THEN "ConstructorOnce"
  ELSE IF reward = 0 THEN "ZeroValue"
  ELSE "Ok"

InitializeStakePool(reward, period) ==
  /\ pool' = IF InitializeStakePoolRun(reward, period) # "Ok" THEN pool
             ELSE [state |-> "Initialized", owner |-> Creator,
                   genesis_timestamp |-> now, total_shares |-> 0,
                   reward |-> reward, period |-> period, compensation |-> 0]
  /\ ledger' = IF InitializeStakePoolRun(reward, period) # "Ok" THEN ledger
               ELSE [ledger EXCEPT !.paid = 0, !.staked = {}]
  /\ UNCHANGED <<now, debts, shares, last, call, share_lamports>>

\* initialize_accounts without the check of debt_data.is_initialized()
InitializeAccountsRunUnchecked(u) ==
  IF pool.state = "Uninitialized" THEN "UninitializedAccount"
  ELSE "Ok"

\* Processor::initialize_accounts
InitializeAccountsRun(u) ==
  IF pool.state = "Uninitialized" THEN "UninitializedAccount"
  ELSE IF debts[u].is_initialized THEN "ConstructorOnce"
  ELSE "Ok"

InitializeAccounts(u) ==
  /\ debts' = IF InitializeAccountsRun(u) # "Ok" THEN debts
              ELSE [debts EXCEPT ![u] = [debt |-> 0, is_initialized |-> TRUE]]
  /\ share_lamports' = IF InitializeAccountsRun(u) # "Ok" THEN share_lamports
                       ELSE [share_lamports EXCEPT ![u] = 1]
  /\ UNCHANGED <<now, pool, shares, last, call, ledger>>

\* Stake that packs the harvested debt before its later steps are checked
StakeEarlyPack(u, amount) ==
  \E r \in {StakeRun(u, amount)} :
      /\ IF r.err = "Ok"
         THEN /\ shares' = [shares EXCEPT ![u] = @ + amount]
              /\ debts' = [debts EXCEPT ![u].debt = r.debt]
              /\ pool' = [pool EXCEPT !.total_shares = r.total_shares,
                                      !.compensation = r.compensation]
              /\ last' = Done("stake", u)
         ELSE /\ debts' = IF Len(r.steps) >= 2
                          THEN [debts EXCEPT ![u].debt = HarvestRun(u).debt]
                          ELSE debts
              /\ UNCHANGED <<shares, pool, last>>
      /\ ledger' = IF r.err = "Ok" THEN Transferred("stake", u, r.yeild)
                   ELSE ledger
      /\ UNCHANGED <<now, call, share_lamports>>

\* Stake without XSPLT::mint_to: the shares staked are counted in the pool
\* and never minted
StakeNoMint(u, amount) ==
  \E r \in {StakeRun(u, amount)} :
      /\ IF r.err = "Ok"
         THEN /\ debts' = [debts EXCEPT ![u].debt = r.debt]
              /\ pool' = [pool EXCEPT !.total_shares = r.total_shares,
                                      !.compensation = r.compensation]
              /\ last' = Done("stake", u)
              /\ UNCHANGED shares
         ELSE UNCHANGED <<shares, debts, pool, last>>
      /\ ledger' = IF r.err = "Ok" THEN Transferred("stake", u, r.yeild)
                   ELSE ledger
      /\ UNCHANGED <<now, call, share_lamports>>

\* Stake that mints the shares and packs the pool, and leaves the debt
\* account as it was
StakeKeepsDebt(u, amount) ==
  \E r \in {StakeRun(u, amount)} :
      /\ IF r.err = "Ok"
         THEN /\ shares' = [shares EXCEPT ![u] = @ + amount]
              /\ pool' = [pool EXCEPT !.total_shares = r.total_shares,
                                      !.compensation = r.compensation]
              /\ last' = Done("stake", u)
              /\ UNCHANGED debts
         ELSE UNCHANGED <<shares, debts, pool, last>>
      /\ ledger' = IF r.err = "Ok" THEN Transferred("stake", u, r.yeild)
                   ELSE ledger
      /\ UNCHANGED <<now, call, share_lamports>>

\* Processor::stake; the share tokens are minted and the accounts packed
\* (processor.rs:413-438) only when no step failed
Stake(u, amount) ==
  \E r \in {StakeRun(u, amount)} :
      /\ IF r.err = "Ok"
         THEN /\ shares' = [shares EXCEPT ![u] = @ + amount]
              /\ debts' = [debts EXCEPT ![u].debt = r.debt]
              /\ pool' = [pool EXCEPT !.total_shares = r.total_shares,
                                      !.compensation = r.compensation]
              /\ last' = Done("stake", u)
         ELSE UNCHANGED <<shares, debts, pool, last>>
      /\ ledger' = IF r.err = "Ok" THEN Transferred("stake", u, r.yeild)
                   ELSE ledger
      /\ UNCHANGED <<now, call, share_lamports>>

\* Unstake that packs the total_shares and leaves the compensation
UnstakeKeepsCompensation(u, amount) ==
  \E r \in {UnstakeRun(u, amount)} :
      /\ IF r.err = "Ok"
         THEN /\ shares' = [shares EXCEPT ![u] = @ - amount]
              /\ debts' = [debts EXCEPT ![u].debt = r.debt]
              /\ pool' = [pool EXCEPT !.total_shares = r.total_shares]
              /\ last' = Done("unstake", u)
         ELSE UNCHANGED <<shares, debts, pool, last>>
      /\ ledger' = IF r.err = "Ok" THEN Transferred("unstake", u, r.yeild)
                   ELSE ledger
      /\ UNCHANGED <<now, call, share_lamports>>

\* Unstake that packs the debt of its harvest step
UnstakeKeepsDebt(u, amount) ==
  \E r \in {UnstakeRun(u, amount)} :
      /\ IF r.err = "Ok"
         THEN /\ shares' = [shares EXCEPT ![u] = @ - amount]
              /\ debts' = [debts EXCEPT ![u].debt = HarvestRun(u).debt]
              /\ pool' = [pool EXCEPT !.total_shares = r.total_shares,
                                      !.compensation = r.compensation]
              /\ last' = Done("unstake", u)
         ELSE UNCHANGED <<shares, debts, pool, last>>
      /\ ledger' = IF r.err = "Ok" THEN Transferred("unstake", u, r.yeild)
                   ELSE ledger
      /\ UNCHANGED <<now, call, share_lamports>>

\* Processor::unstake; the share tokens are burnt and the accounts packed
\* (processor.rs:536-562) only when no step failed
Unstake(u, amount) ==
  \E r \in {UnstakeRun(u, amount)} :
      /\ IF r.err = "Ok"
         THEN /\ shares' = [shares EXCEPT ![u] = @ - amount]
              /\ debts' = [debts EXCEPT ![u].debt = r.debt]
              /\ pool' = [pool EXCEPT !.total_shares = r.total_shares,
                                      !.compensation = r.compensation]
              /\ last' = Done("unstake", u)
         ELSE UNCHANGED <<shares, debts, pool, last>>
      /\ ledger' = IF r.err = "Ok" THEN Transferred("unstake", u, r.yeild)
                   ELSE ledger
      /\ UNCHANGED <<now, call, share_lamports>>

\* Harvest that packs the compensation of an unstake step of the user's
\* shares
HarvestPacksUnstake(u) ==
  \E r \in {HarvestRun(u)} :
      /\ IF r.err = "Ok"
         THEN LET w == fully_unstake(shares[u], r.debt, r.compensation,
                                     estimate_delay(pool), pool.reward,
                                     pool.total_shares,
                                     pool.total_shares - shares[u])
              IN  /\ debts' = [debts EXCEPT ![u].debt = r.debt]
                  /\ pool' = [pool EXCEPT !.total_shares = r.total_shares,
                                          !.compensation =
                                            IF w.some THEN w.compensation
                                            ELSE r.compensation]
                  /\ last' = Done("harvest", u)
         ELSE UNCHANGED <<debts, pool, last>>
      /\ ledger' = IF r.err = "Ok" THEN Transferred("harvest", u, r.yeild)
                   ELSE ledger
      /\ UNCHANGED <<now, shares, call, share_lamports>>

\* Harvest that transfers the reward and does not pack the new debt
HarvestNoPack(u) ==
  \E r \in {HarvestRun(u)} :
      /\ IF r.err = "Ok"
         THEN /\ last' = Done("harvest", u)
              /\ UNCHANGED <<debts, pool>>
         ELSE UNCHANGED <<debts, pool, last>>
      /\ ledger' = IF r.err = "Ok" THEN Transferred("harvest", u, r.yeild)
                   ELSE ledger
      /\ UNCHANGED <<now, shares, call, share_lamports>>

\* Processor::harvest; the accounts are packed (processor.rs:620-636) only
\* when no step failed
Harvest(u) ==
  \E r \in {HarvestRun(u)} :
      /\ IF r.err = "Ok"
         THEN /\ debts' = [debts EXCEPT ![u].debt = r.debt]
              /\ pool' = [pool EXCEPT !.total_shares = r.total_shares,
                                      !.compensation = r.compensation]
              /\ last' = Done("harvest", u)
         ELSE UNCHANGED <<debts, pool, last>>
      /\ ledger' = IF r.err = "Ok" THEN Transferred("harvest", u, r.yeild)
                   ELSE ledger
      /\ UNCHANGED <<now, shares, call, share_lamports>>

\* Processor::freeze_stake_pool, signed by the owner of the pool
FreezeStakePool ==
  /\ pool' = IF pool.state = "Uninitialized" THEN pool
             ELSE [pool EXCEPT !.state = "Frozen"]
  /\ UNCHANGED <<now, debts, shares, last, call, share_lamports, ledger>>

\* thaw_stake_pool that starts the periods of the pool again
ThawRestartsClock ==
  /\ pool' = IF pool.state = "Uninitialized" THEN pool
             ELSE [pool EXCEPT !.state = "Initialized",
                               !.genesis_timestamp = now]
  /\ UNCHANGED <<now, debts, shares, last, call, share_lamports, ledger>>

\* Processor::thaw_stake_pool, signed by the owner of the pool
ThawStakePool ==
  /\ pool' = IF pool.state = "Uninitialized" THEN pool
             ELSE [pool EXCEPT !.state = "Initialized"]
  /\ UNCHANGED <<now, debts, shares, last, call, share_lamports, ledger>>

\* Processor::seed: SEN moves from the caller to treasury_sen when the pool
\* exists and the amount is not 0; the handler unpacks the pool and packs no
\* account of the program
Seed(amount) == UNCHANGED vars

\* Processor::unseed, signed by the owner of the pool: SEN moves from
\* treasury_sen to the owner when the pool exists and the amount is not 0;
\* the handler unpacks the pool and packs no account of the program
Unseed(amount) == UNCHANGED vars

\* Processor::transfer_stake_pool_ownership, signed by the owner of the pool
TransferStakePoolOwnership(new_owner) ==
  /\ pool' = IF pool.state = "Uninitialized" THEN pool
             ELSE [pool EXCEPT !.owner = new_owner]
  /\ UNCHANGED <<now, debts, shares, last, call, share_lamports, ledger>>

\* close_debt that does not look at the share account
CloseDebtAnyShares(u) ==
  /\ IF debts[u].is_initialized /\ debts[u].debt = 0
     THEN /\ debts' = [debts EXCEPT ![u] = [debt |-> 0, is_initialized |-> FALSE]]
          /\ last' = NoDone
     ELSE UNCHANGED <<debts, last>>
  /\ UNCHANGED <<now, pool, shares, call, share_lamports, ledger>>

\* Processor::close_debt up to its last fallible step (processor.rs:769-776)
CloseDebtRun(u) ==
  IF ~debts[u].is_initialized THEN "UninitializedAccount"
  ELSE IF debts[u].debt # 0 \/ share_lamports[u] # 0 THEN "ZeroValue"
  ELSE "Ok"

\* Processor::close_debt: the lamports of the debt account are moved out
\* (processor.rs:778-785), and the runtime drops an account without lamports
CloseDebt(u) ==
  /\ IF CloseDebtRun(u) = "Ok"
     THEN /\ debts' = [debts EXCEPT ![u] = [debt |-> 0, is_initialized |-> FALSE]]
          /\ last' = NoDone
     ELSE UNCHANGED <<debts, last>>
  /\ UNCHANGED <<now, pool, shares, call, share_lamports, ledger>>

\* Processor::close_stake_pool up to its last fallible step
\* (processor.rs:798-803)
CloseStakePoolRun ==
  IF pool.state = "Uninitialized" THEN "UninitializedAccount"
  ELSE IF pool.total_shares # 0 THEN "ZeroValue"
  ELSE "Ok"

\* Processor::close_stake_pool, signed by the owner of the pool: the
\* lamports of the pool are moved out (processor.rs:805-811) and the runtime
\* drops the account
CloseStakePool ==
  /\ IF CloseStakePoolRun = "Ok"
     THEN /\ pool' = [state |-> "Uninitialized", owner |-> "none",
                      genesis_timestamp |-> 0, total_shares |-> 0, reward |-> 0,
                      period |-> 0, compensation |-> 0]
          /\ last' = NoDone
     ELSE UNCHANGED <<pool, last>>
  /\ UNCHANGED <<now, debts, shares, call, share_lamports, ledger>>

\* the owner closes the share token account with the token program, which
\* accepts it only for an account that holds no tokens; close_debt reads
\* the outcome as share_acc.lamports() (processor.rs:774)
CloseShareAccount(u) ==
  /\ share_lamports[u] # 0
  /\ shares[u] = 0
  /\ share_lamports' = [share_lamports EXCEPT ![u] = 0]
  /\ last' = NoDone
  /\ UNCHANGED <<now, pool, debts, shares, call, ledger>>

\* the instructions of the users and the creation of the pool
\* (Processor::process), with the arguments their callers choose
Next ==
  \/ Tick
  \/ \E reward \in Rewards, period \in Periods : InitializeStakePool(reward, period)
  \/ \E u \in Users : InitializeAccounts(u)
  \/ \E u \in Users, amount \in 0..MaxAmount : Stake(u, amount)
  \/ \E u \in Users, amount \in 0..MaxAmount : Unstake(u, amount)
  \/ \E u \in Users : Harvest(u)

Spec == Init /\ [][Next]_vars

\* the accounts of Init, with a ledger that keeps what is named
InitLedger(keeps) ==
  /\ now = 0
  /\ pool = [state |-> "Uninitialized", owner |-> "none", genesis_timestamp |-> 0,
             total_shares |-> 0, reward |-> 0, period |-> 0, compensation |-> 0]
  /\ debts = [u \in Users |-> [debt |-> 0, is_initialized |-> FALSE]]
  /\ shares = [u \in Users |-> 0]
  /\ last = NoDone
  /\ call = NoCall
  /\ share_lamports = [u \in Users |-> 0]
  /\ ledger = [keeps |-> keeps, paid |-> 0, staked |-> {}]

\* the instructions of Next with the rewards transferred kept
InitPaid == InitLedger({"paid"})

SpecPaid == InitPaid /\ [][Next]_vars

\* the instructions of Next with the users who staked at the current delay
\* kept
InitStaked == InitLedger({"staked"})

SpecStaked == InitStaked /\ [][Next]_vars

\* every instruction of the program: the same with the owner freezing and
\* thawing the pool, seeding and unseeding its treasury and handing the pool
\* over, and with the closing of the accounts
NextPool ==
  \/ Next
  \/ FreezeStakePool
  \/ ThawStakePool
  \/ \E amount \in 0..1 : Seed(amount)
  \/ \E amount \in 0..1 : Unseed(amount)
  \/ \E new_owner \in Owners : TransferStakePoolOwnership(new_owner)
  \/ \E u \in Users : CloseShareAccount(u)
  \/ \E u \in Users : CloseDebt(u)
  \/ CloseStakePool

SpecPool == Init /\ [][NextPool]_vars

\* with the closing of the accounts
NextClose ==
  \/ Next
  \/ \E u \in Users : CloseShareAccount(u)
  \/ \E u \in Users : CloseDebt(u)
  \/ CloseStakePool

SpecClose == Init /\ [][NextClose]_vars

(***************************************************************************)
(* The pattern functions called directly, on arguments of the caller's     *)
(* choice (they are public functions of helper/pattern.rs)                 *)
(***************************************************************************)

\* the arguments tried: small values and the ends of the i128 range; the
\* debt is taken around the debt the other arguments settle to
CompensationArgs == (-MaxArg..MaxArg) \cup {I128Min, I128Max}
DebtArgs(a) ==
  LET e == DebtOf(fractionalize_reward(a.reward, a.current_total_shares),
                  a.delay, a.compensation, a.shares)
  IN  {d \in {0, 1, e - 1, e, e + 1} : FitsU128(d)}
CallArgs ==
  [shares : 0..MaxArg, compensation : CompensationArgs, delay : 0..MaxArg,
   reward : 1..MaxReward, current_total_shares : 0..MaxArg,
   next_total_shares : 0..MaxArg]

PatternInit ==
  /\ now = 0
  /\ pool = [state |-> "Uninitialized", owner |-> "none", genesis_timestamp |-> 0,
             total_shares |-> 0, reward |-> 0, period |-> 0, compensation |-> 0]
  /\ debts = [u \in Users |-> [debt |-> 0, is_initialized |-> FALSE]]
  /\ shares = [u \in Users |-> 0]
  /\ last = NoDone
  /\ share_lamports = [u \in Users |-> 0]
  /\ ledger = NoLedger
  /\ \E a \in CallArgs : \E d \in DebtArgs(a) :
       call = [fn |-> "none",
               args |-> [shares |-> a.shares, debt |-> d,
                         compensation |-> a.compensation, delay |-> a.delay,
                         reward |-> a.reward,
                         current_total_shares |-> a.current_total_shares,
                         next_total_shares |-> a.next_total_shares],
               out |-> None]

\* a call of f on the arguments drawn
Apply(fn, out) ==
  /\ call.fn = "none"
  /\ call' = [fn |-> fn, args |-> call.args, out |-> out]
  /\ UNCHANGED <<now, pool, debts, shares, last, share_lamports, ledger>>

CallHavest ==
  LET a == call.args
  IN  Apply("fully_havest",
            fully_havest(a.shares, a.debt, a.compensation, a.delay, a.reward,
                         a.current_total_shares, a.next_total_shares))

CallUnstake ==
  LET a == call.args
  IN  Apply("fully_unstake",
            fully_unstake(a.shares, a.debt, a.compensation, a.delay, a.reward,
                          a.current_total_shares, a.next_total_shares))

CallStake ==
  LET a == call.args
  IN  Apply("fully_stake",
            fully_stake(a.shares, a.debt, a.compensation, a.delay, a.reward,
                        a.current_total_shares, a.next_total_shares))

\* fully_unstake, then fully_stake of the same shares back to the total the
\* pool started from, as stake and unstake chain them (processor.rs:383-411)
RoundTrip(a) ==
  LET w == fully_unstake(a.shares, a.debt, a.compensation, a.delay, a.reward,
                         a.current_total_shares, a.next_total_shares)
  IN  IF ~w.some THEN None
      ELSE fully_stake(a.shares, w.debt, w.compensation, a.delay, a.reward,
                       a.next_total_shares, a.current_total_shares)

CallRoundTrip == Apply("round_trip", RoundTrip(call.args))

\* fractionalize_reward on the reward and the current total drawn; both of
\* its returns are Some((fraction, precision)) (pattern.rs:18, 23)
CallFractionalize ==
  Apply("fractionalize_reward",
        [some |-> TRUE,
         fraction |-> fractionalize_reward(call.args.reward,
                                           call.args.current_total_shares),
         precision |-> PRECISION])

PatternNext ==
  CallHavest \/ CallUnstake \/ CallStake \/ CallRoundTrip \/ CallFractionalize

PatternSpec == PatternInit /\ [][PatternNext]_vars

(***************************************************************************)
(* The claims                                                              *)
(***************************************************************************)

RECURSIVE SumShares(_)
SumShares(S) ==
  IF S = {} THEN 0
  ELSE LET u == CHOOSE x \in S : TRUE IN shares[u] + SumShares(S \ {u})

Amounts == 0..MaxAmount
Triple == <<"harvest", "unstake", "stake">>
StakeOk(u, a) == Stake(u, a) /\ StakeRun(u, a).err = "Ok"
UnstakeOk(u, a) == Unstake(u, a) /\ UnstakeRun(u, a).err = "Ok"
HarvestOk(u) == Harvest(u) /\ HarvestRun(u).err = "Ok"

\* the debt Settle computes for user j from j's shares and the pool, at the
\* delay of the pool
SettleValue(j) ==
  DebtOf(fractionalize_reward(pool.reward, pool.total_shares), estimate_delay(pool),
         pool.compensation, shares[j])

\* a step that writes an account or records an instruction
Written == <<pool, debts, shares, last>>' # <<pool, debts, shares, last>>

\* C1: in every state the pool's total_shares is the sum of the users'
\* shares; a successful stake(amount) raises it by amount, a successful
\* unstake(amount) lowers it by amount, a harvest leaves it as it is.
C1_TotalSharesIsSum ==
  /\ pool.total_shares = SumShares(Users)
  /\ \A u \in Users :
       /\ \A a \in Amounts :
            /\ StakeRun(u, a).err = "Ok"
                 => StakeRun(u, a).total_shares = pool.total_shares + a
            /\ UnstakeRun(u, a).err = "Ok"
                 => UnstakeRun(u, a).total_shares = pool.total_shares - a
       /\ HarvestRun(u).err = "Ok"
            => HarvestRun(u).total_shares = pool.total_shares

\* both users hold shares, after a stake by each and an unstake
C1_Witness ==
  /\ last.op = "unstake"
  /\ \A u \in Users : shares[u] > 0
  /\ pool.total_shares = SumShares(Users)

\* C2: a successful stake or unstake by user i leaves the debt that Settle
\* computes for every other user j, at the same delay, as it was.
C2_Isolation ==
  [][shares' # shares =>
       \A i \in Users, a \in Amounts :
         (StakeOk(i, a) \/ UnstakeOk(i, a))
           => \A j \in Users \ {i} : SettleValue(j)' = SettleValue(j)]_vars

\* C3: every successful stake, unstake and harvest calls the three pattern
\* functions, in the order harvest, unstake, stake.
C3_ThreeStepsInOrder ==
  [][Written =>
       \A u \in Users :
         /\ \A a \in Amounts :
              /\ StakeOk(u, a) => StakeRun(u, a).steps = Triple
              /\ UnstakeOk(u, a) => UnstakeRun(u, a).steps = Triple
         /\ HarvestOk(u) => HarvestRun(u).steps = Triple]_vars

\* C4: a Settle that succeeds returns a debt no smaller than the debt it
\* was given, so the reward new debt - debt of a stake, unstake or harvest
\* is never negative and a harvest never lowers the stored debt.
C4_SettleNeverLowersDebt ==
  \A u \in Users :
    (Unpacked(u) /\ pool.period # 0) =>
      LET h == fully_havest(shares[u], debts[u].debt, pool.compensation,
                            estimate_delay(pool), pool.reward,
                            pool.total_shares, pool.total_shares)
      IN  /\ h.some => h.debt - debts[u].debt >= 0
          /\ HarvestRun(u).err = "Ok" => HarvestRun(u).debt >= debts[u].debt

\* a harvest has succeeded, and Settle gives some user a debt below the
\* stored one (the case the guard rejects)
C4_Witness ==
  /\ last.op = "harvest"
  /\ \E u \in Users : Unpacked(u) /\ SettleValue(u) < debts[u].debt

\* C5: a stake, unstake or harvest that fails leaves the stored debts, the
\* pool's total_shares and compensation (and the shares) as they were.
\* (A handler that fails completes no operation, so it leaves last as it
\* was: that conjunct comes first because it is the cheapest to evaluate.)
C5_FailClosed ==
  [][\/ UNCHANGED <<pool, debts, shares>>
     \/ \A u \in Users :
          /\ \A a \in Amounts :
               /\ ~(UNCHANGED last /\ Stake(u, a) /\ StakeRun(u, a).err # "Ok")
               /\ ~(UNCHANGED last /\ Unstake(u, a)
                      /\ UnstakeRun(u, a).err # "Ok")
          /\ ~(UNCHANGED last /\ Harvest(u) /\ HarvestRun(u).err # "Ok")]_vars

\* a stake is about to fail on an overflow after its harvest step computed
\* a new debt
C5_Witness ==
  \E u \in Users, a \in Amounts :
    /\ StakeRun(u, a).err = "Overflow"
    /\ Len(StakeRun(u, a).steps) >= 2
    /\ SettleValue(u) > debts[u].debt

\* C6: a user who harvested at this delay, with no stake or unstake since,
\* harvests again with success, a reward of 0 and the same debt.
C6_HarvestIdempotent ==
  \A u \in last.settled :
    pool.state = "Initialized" =>
      /\ HarvestRun(u).err = "Ok"
      /\ HarvestRun(u).yeild = 0
      /\ HarvestRun(u).debt = debts[u].debt

\* both users have harvested at the same delay and hold a debt
C6_Witness ==
  /\ last.settled = Users
  /\ \A u \in Users : debts[u].debt > 0

C8_UnstakeNeedsSettledDebt ==
  (call.fn = "fully_unstake" /\ call.out.some) =>
    call.args.debt =
      DebtOf(fractionalize_reward(call.args.reward, call.args.current_total_shares),
             call.args.delay, call.args.compensation, call.args.shares)

\* a fully_unstake that succeeded on a debt that is not 0
C8_Witness ==
  /\ call.fn = "fully_unstake"
  /\ call.out.some
  /\ call.args.debt > 0

\* C9: fully_stake fails on every debt that is not 0.
C9_StakeNeedsZeroDebt ==
  (call.fn = "fully_stake" /\ call.args.debt # 0) => ~call.out.some

\* a fully_stake refused for its debt alone
C9_Witness ==
  /\ call.fn = "fully_stake"
  /\ call.args.debt # 0
  /\ call.args.current_total_shares <= call.args.next_total_shares
  /\ ~call.out.some

\* C10: fully_havest fails unless the two totals are equal, fully_unstake
\* fails on a growing total, fully_stake fails on a shrinking total.
C10_WrongDirectionFails ==
  /\ ( /\ call.fn = "fully_havest"
       /\ call.args.current_total_shares # call.args.next_total_shares )
     => call.out = None
  /\ ( /\ call.fn = "fully_unstake"
       /\ call.args.next_total_shares > call.args.current_total_shares )
     => call.out = None
  /\ ( /\ call.fn = "fully_stake"
       /\ call.args.current_total_shares > call.args.next_total_shares )
     => call.out = None

\* a fully_unstake refused for its growing total alone: its debt is the
\* expected debt
C10_Witness ==
  /\ call.fn = "fully_unstake"
  /\ call.args.next_total_shares > call.args.current_total_shares
  /\ call.args.debt =
       DebtOf(fractionalize_reward(call.args.reward, call.args.current_total_shares),
              call.args.delay, call.args.compensation, call.args.shares)
  /\ call.out = None

\* the fractions and the Settle expression of the arguments of the call
CurrentFraction ==
  fractionalize_reward(call.args.reward, call.args.current_total_shares)
NextFraction ==
  fractionalize_reward(call.args.reward, call.args.next_total_shares)

\* C11 as claimed: a fully_havest that succeeds returns the shares and the
\* compensation it was given and the debt
\* floor((fraction * delay + compensation) * shares / PRECISION), the floor
\* rounding toward minus infinity.
C11_SettleFloors ==
  (call.fn = "fully_havest" /\ call.out.some) =>
    /\ call.out.shares = call.args.shares
    /\ call.out.compensation = call.args.compensation
    /\ call.out.debt =
         ((CurrentFraction * call.args.delay + call.args.compensation)
            * call.args.shares) \div PRECISION

\* C12: a fully_unstake that succeeds returns shares 0 and debt 0, and the
\* compensation 0 when the fraction at the next total is 0, otherwise
\* compensation - (next fraction - current fraction) * delay.
C12_UnstakeResult ==
  (call.fn = "fully_unstake" /\ call.out.some) =>
    /\ call.out.shares = 0
    /\ call.out.debt = 0
    /\ call.out.compensation =
         IF NextFraction = 0 THEN 0
         ELSE call.args.compensation
                - (NextFraction - CurrentFraction) * call.args.delay

\* a fully_unstake that succeeded and moved the compensation
C12_Witness ==
  /\ call.fn = "fully_unstake"
  /\ call.out.some
  /\ NextFraction # 0
  /\ NextFraction # CurrentFraction
  /\ call.args.delay > 0
  /\ call.out.compensation # call.args.compensation

\* C13 as claimed: a fully_stake that succeeds returns the shares it was
\* given, the compensation 0 when the fraction at the current total is 0 and
\* otherwise compensation + (current fraction - next fraction) * delay, and
\* the debt floor((next fraction * delay + new compensation) * shares /
\* PRECISION).
C13_StakeResult ==
  (call.fn = "fully_stake" /\ call.out.some) =>
    /\ call.out.shares = call.args.shares
    /\ call.out.compensation =
         IF CurrentFraction = 0 THEN 0
         ELSE call.args.compensation
                + (CurrentFraction - NextFraction) * call.args.delay
    /\ call.out.debt =
         ((NextFraction * call.args.delay + call.out.compensation)
            * call.args.shares) \div PRECISION

\* C14: for reward > 0 and total_shares > 0 fractionalize_reward is
\* floor(reward * PRECISION / total_shares); for total_shares = 0 it is the
\* zero fraction; it never fails.
C14_Fraction ==
  call.fn = "fractionalize_reward" =>
    /\ call.out.some
    /\ (call.args.reward > 0 /\ call.args.current_total_shares > 0) =>
         call.out.fraction =
           (call.args.reward * PRECISION) \div call.args.current_total_shares
    /\ call.args.current_total_shares = 0 => call.out.fraction = 0

\* a fraction that the division rounds down
C14_Witness ==
  /\ call.fn = "fractionalize_reward"
  /\ call.args.current_total_shares > 0
  /\ call.out.fraction > 0
  /\ call.out.fraction * call.args.current_total_shares
       < call.args.reward * PRECISION

\* C15: with the shares, the compensation, the reward and the total shares
\* fixed, the debt fully_havest computes at a delay is at least the debt it
\* computes at every smaller delay where it succeeds.
C15_MonotoneInDelay ==
  (call.fn = "fully_havest" /\ call.out.some) =>
    \A d1 \in 0..call.args.delay :
      LET h1 == fully_havest(call.args.shares, 0, call.args.compensation, d1,
                             call.args.reward, call.args.current_total_shares,
                             call.args.next_total_shares)
      IN  h1.some => call.out.debt >= h1.debt

\* a debt that grew between two delays
C15_Witness ==
  /\ call.fn = "fully_havest"
  /\ call.out.some
  /\ call.args.delay > 0
  /\ \E d1 \in 0..(call.args.delay - 1) :
       LET h1 == fully_havest(call.args.shares, 0, call.args.compensation, d1,
                              call.args.reward, call.args.current_total_shares,
                              call.args.next_total_shares)
       IN  h1.some /\ h1.debt > 0 /\ call.out.debt > h1.debt

\* C16: on a pool without shares and without compensation, the harvest of
\* a user with no shares and no debt succeeds at every delay and transfers
\* a reward of 0 (the delay exists when the period is not 0, see C20).
C16_EmptyPoolHarmless ==
  \A u \in Users :
    ( /\ pool.state = "Initialized"
      /\ pool.period # 0
      /\ pool.total_shares = 0
      /\ pool.compensation = 0
      /\ debts[u].is_initialized
      /\ shares[u] = 0
      /\ debts[u].debt = 0 )
    => /\ HarvestRun(u).err = "Ok"
       /\ HarvestRun(u).yeild = 0
       /\ HarvestRun(u).debt = 0

\* a harvest went through on a pool that never had shares, after the first
\* period
C16_Witness ==
  /\ last.op = "harvest"
  /\ pool.total_shares = 0
  /\ pool.period # 0
  /\ estimate_delay(pool) > 0
  /\ \A u \in Users : shares[u] = 0 /\ debts[u].debt = 0

\* C17 as claimed: the reward that a successful stake, unstake or harvest
\* transfers is the new debt of its harvest step minus the stored debt.
C17_YieldExact ==
  \A u \in Users :
    (Unpacked(u) /\ pool.period # 0) =>
      /\ HarvestRun(u).err = "Ok"
           => HarvestRun(u).yeild = SettleValue(u) - debts[u].debt
      /\ \A a \in Amounts :
           /\ StakeRun(u, a).err = "Ok"
                => StakeRun(u, a).yeild = SettleValue(u) - debts[u].debt
           /\ UnstakeRun(u, a).err = "Ok"
                => UnstakeRun(u, a).yeild = SettleValue(u) - debts[u].debt

\* C18: a user without shares has no debt, so a user who unstaked all the
\* shares is left with shares 0 and debt 0; an unstake of all the shares of
\* a user packs the debt 0 and takes the shares off the total; when no user
\* holds shares the total is 0.
C18_DrainedIsClosable ==
  /\ \A u \in Users : shares[u] = 0 => debts[u].debt = 0
  /\ (\A u \in Users : shares[u] = 0) => pool.total_shares = 0
  /\ \A u \in Users :
       (shares[u] > 0 /\ UnstakeRun(u, shares[u]).err = "Ok") =>
         /\ UnstakeRun(u, shares[u]).debt = 0
         /\ UnstakeRun(u, shares[u]).total_shares = pool.total_shares - shares[u]

\* every user has unstaked everything after rewards accrued: the last
\* instruction is an unstake, at a delay above 0, and nobody holds shares
C18_Witness ==
  /\ last.op = "unstake"
  /\ pool.period # 0
  /\ estimate_delay(pool) > 0
  /\ \A u \in Users : debts[u].is_initialized /\ shares[u] = 0
  /\ pool.total_shares = 0

\* C20 as claimed: every pool that exists has a period above 0, and no
\* stake, unstake or harvest divides by 0.
C20_PeriodPositive ==
  pool.state # "Uninitialized" =>
    /\ pool.period > 0
    /\ \A u \in Users : HarvestRun(u).err # "Panic"

\* C19: a pool is closed only from a state where its total_shares is 0, a
\* debt account only from a state where its debt is 0 and its user holds no
\* shares; a close_debt or close_stake_pool that fails changes nothing.
C19_CloseOnlyWhenDrained ==
  [][/\ (pool.state # "Uninitialized" /\ pool'.state = "Uninitialized")
          => pool.total_shares = 0
     /\ \A u \in Users :
          /\ (debts[u].is_initialized /\ ~debts'[u].is_initialized)
               => (debts[u].debt = 0 /\ shares[u] = 0)
          /\ (CloseDebtRun(u) # "Ok" /\ CloseDebt(u)) => UNCHANGED vars
     /\ (CloseStakePoolRun # "Ok" /\ CloseStakePool) => UNCHANGED vars]_vars

\* everything has been closed after it was used: the pool is gone, no debt
\* account is left, and the clock has advanced
C19_Witness ==
  /\ pool.state = "Uninitialized"
  /\ now > 0
  /\ \A u \in Users : ~debts[u].is_initialized /\ share_lamports[u] = 0

\* C21: the compensation of the pool changes only in a successful stake or
\* unstake; harvest, freeze, thaw, seed, unseed, the transfer of ownership,
\* the initialization and the closing of accounts leave it as it is.
C21_CompensationFrame ==
  [][pool'.compensation # pool.compensation =>
       \E u \in Users, a \in Amounts : StakeOk(u, a) \/ UnstakeOk(u, a)]_vars

\* a compensation that is not 0 has gone through a harvest, a freeze and a
\* transfer of ownership
C21_Witness ==
  /\ pool.compensation # 0
  /\ last.op = "harvest"
  /\ pool.state = "Frozen"
  /\ pool.owner # Creator

\* C22: as long as the pool exists its reward, period and genesis_timestamp
\* stay what initialize_stake_pool made them.
C22_RateFrame ==
  [][(pool.state # "Uninitialized" /\ pool'.state # "Uninitialized") =>
       /\ pool'.reward = pool.reward
       /\ pool'.period = pool.period
       /\ pool'.genesis_timestamp = pool.genesis_timestamp]_vars

\* a pool created after the clock started has been used, frozen and thawed
\* and handed over
C22_Witness ==
  /\ pool.state = "Initialized"
  /\ pool.genesis_timestamp > 0
  /\ now > pool.genesis_timestamp
  /\ pool.owner # Creator
  /\ pool.total_shares > 0
  /\ last.op = "unstake"

\* C23: initialize_stake_pool creates the pool with total_shares 0 and
\* compensation 0, initialize_accounts creates a debt account with debt 0;
\* on a pool or a debt account that is initialized they fail with
\* ConstructorOnce and change nothing, and what is initialized stays so.
C23_ConstructorOnce ==
  [][/\ pool.state = "Uninitialized" =>
          (pool'.state = "Uninitialized"
             \/ (pool'.total_shares = 0 /\ pool'.compensation = 0
                   /\ pool'.genesis_timestamp = now))
     /\ pool.state # "Uninitialized" =>
          /\ pool'.state # "Uninitialized"
          /\ \A reward \in Rewards, period \in Periods :
               /\ InitializeStakePoolRun(reward, period) = "ConstructorOnce"
               /\ InitializeStakePool(reward, period) => UNCHANGED pool
     /\ \A u \in Users :
          /\ ~debts[u].is_initialized =>
               (~debts'[u].is_initialized \/ debts'[u].debt = 0)
          /\ debts[u].is_initialized =>
               /\ debts'[u].is_initialized
               /\ InitializeAccountsRun(u) = "ConstructorOnce"
               /\ InitializeAccounts(u) => UNCHANGED debts]_vars

\* both debt accounts exist and hold a debt: a second initialization would
\* have something to erase
C23_Witness ==
  /\ pool.state = "Initialized"
  /\ pool.total_shares > 0
  /\ pool.compensation # 0
  /\ \A u \in Users : debts[u].is_initialized /\ debts[u].debt > 0

\* C24 as claimed: for a reward above 0 and a total from 1 to u64::MAX the
\* fraction is not 0, so fully_unstake resets the compensation only for a
\* next total of 0 and fully_stake only for a current total of 0.
C24_ZeroRatioOnlyEmpty ==
  /\ ( /\ call.fn = "fractionalize_reward"
       /\ call.args.reward > 0
       /\ call.args.current_total_shares \in 1..U64Max )
     => call.out.fraction # 0
  /\ (call.fn = "fully_unstake" /\ call.out.some /\ NextFraction = 0)
     => call.args.next_total_shares = 0
  /\ (call.fn = "fully_stake" /\ call.out.some /\ CurrentFraction = 0)
     => call.args.current_total_shares = 0

\* C25 as claimed: a harvest whose recomputed debt fits and is below the
\* stored debt fails with NonMonotonicDebt, one whose recomputed debt does
\* not fit fails with the overflow error.
C25_ErrorKinds ==
  \A u \in Users :
    (pool.state = "Initialized" /\ pool.period # 0 /\ Unpacked(u)) =>
      /\ (FitsU128(SettleValue(u)) /\ SettleValue(u) < debts[u].debt)
           => HarvestRun(u).err = "NonMonotonicDebt"
      /\ ~FitsU128(SettleValue(u)) => HarvestRun(u).err = "Overflow"

\* C26: on a frozen pool every stake, unstake and harvest fails with
\* FrozenPool and changes nothing; freeze and thaw change the state of the
\* pool and nothing else; after a thaw no stake, unstake or harvest fails
\* with FrozenPool.
C26_FrozenPool ==
  [][/\ (pool.state = "Frozen" /\ ~UNCHANGED <<pool, debts, shares>>) =>
          \A u \in Users :
            /\ ~Harvest(u)
            /\ \A a \in Amounts : ~Stake(u, a) /\ ~Unstake(u, a)
     /\ ( /\ pool.state # pool'.state
          /\ pool.state # "Uninitialized"
          /\ pool'.state # "Uninitialized" )
        => /\ pool' = [pool EXCEPT !.state = pool'.state]
           /\ UNCHANGED <<debts, shares>>
     \* every frozen pool can be thawed and every other pool frozen: these
     \* steps are where the errors of the pool they leave are looked at
     /\ (pool.state = "Frozen" /\ pool'.state = "Initialized") =>
          \A u \in Users :
            Unpacked(u) =>
              /\ HarvestRun(u).err = "FrozenPool"
              /\ \A a \in Amounts :
                   /\ StakeRun(u, a).err = "FrozenPool"
                   /\ UnstakeRun(u, a).err = "FrozenPool"
     /\ (pool.state = "Initialized" /\ pool'.state = "Frozen") =>
          \A u \in Users :
            /\ HarvestRun(u).err # "FrozenPool"
            /\ \A a \in Amounts :
                 /\ StakeRun(u, a).err # "FrozenPool"
                 /\ UnstakeRun(u, a).err # "FrozenPool"]_vars

\* a frozen pool where a harvest would pay a reward and an unstake would
\* move the compensation
C26_Witness ==
  /\ pool.state = "Frozen"
  /\ pool.period # 0
  /\ pool.compensation # 0
  /\ \E u \in Users :
       /\ Unpacked(u)
       /\ shares[u] > 0
       /\ shares[u] < pool.total_shares
       /\ SettleValue(u) > debts[u].debt

\* C27 as claimed: on a pool that is not frozen, when the recomputed debt
\* of a user fits, the harvest of the user succeeds and no unstake of 1 up
\* to all the shares of the user fails in its harvest step (a later step
\* fails only on a value that does not fit).
C27_NoStuckParticipant ==
  \A u \in Users :
    ( /\ pool.state = "Initialized"
      /\ pool.period # 0
      /\ Unpacked(u)
      /\ FitsU128(SettleValue(u)) )
    => /\ HarvestRun(u).err = "Ok"
       /\ \A a \in 1..shares[u] :
            \/ UnstakeRun(u, a).err = "Ok"
            \/ Len(UnstakeRun(u, a).steps) >= 2

\* C30: a pool without shares has a compensation of 0.
C30_EmptyPoolNoCompensation ==
  pool.total_shares = 0 => pool.compensation = 0

\* the last shares have left a pool that had paid rewards to two users
C30_Witness ==
  /\ last.op = "unstake"
  /\ pool.total_shares = 0
  /\ pool.period # 0
  /\ estimate_delay(pool) = MaxTime \div pool.period
  /\ now = MaxTime
  /\ \A u \in Users : debts[u].is_initialized

\* C28: the rewards a pool has transferred to its users, by stake, unstake
\* and harvest together, are at most its reward times the whole periods
\* since its genesis.
C28_NoOverPayment ==
  (pool.state # "Uninitialized" /\ pool.period # 0)
  => ledger.paid <= pool.reward * estimate_delay(pool)

\* C29: a user who has staked at the current delay gets a yield of 0 from
\* every harvest, stake and unstake that succeeds at the same delay.
C29_NoRetroactiveReward ==
  \A u \in ledger.staked :
    (pool.state = "Initialized" /\ pool.period # 0) =>
      /\ HarvestRun(u).err = "Ok" => HarvestRun(u).yeild = 0
      /\ \A a \in Amounts :
           /\ StakeRun(u, a).err = "Ok" => StakeRun(u, a).yeild = 0
           /\ UnstakeRun(u, a).err = "Ok" => UnstakeRun(u, a).yeild = 0

\* a user has staked into a pool that carries a compensation and the debt
\* of another user, and has harvested at the same delay
C29_Witness ==
  /\ last.op = "harvest"
  /\ last.settled \cap ledger.staked # {}
  /\ pool.compensation # 0
  /\ estimate_delay(pool) >= 1
  /\ \E u \in last.settled \cap ledger.staked : shares[u] > 0 /\ debts[u].debt > 0
  /\ \E u \in Users \ ledger.staked : shares[u] > 0 /\ debts[u].debt > 0

\* C31: on a pool that takes operations, a stake or an unstake of 0 by a
\* user whose accounts exist fails with ZeroValue and an unstake of more
\* than the shares of the user fails; in every state, no stake or unstake
\* of 0 and no unstake of more than the shares of the user changes the
\* pool, a debt or the shares, or transfers a reward.
C31_InvalidAmounts ==
  /\ [](\A u \in Users :
         (pool.state = "Initialized" /\ Unpacked(u)) =>
           /\ StakeRun(u, 0).err = "ZeroValue"
           /\ UnstakeRun(u, 0).err = "ZeroValue"
           /\ \A a \in Amounts :
                a > shares[u] => UnstakeRun(u, a).err \notin {"Ok", "ZeroValue"})
  /\ [][~UNCHANGED <<pool, debts, shares, ledger>> =>
          \A u \in Users :
            /\ ~Stake(u, 0)
            /\ ~Unstake(u, 0)
            /\ \A a \in Amounts : a > shares[u] => ~Unstake(u, a)]_vars

\* a user holds fewer shares than can be asked for and is owed a reward
\* that an accepted operation would transfer, on a pool that has paid
C31_Witness ==
  /\ pool.state = "Initialized"
  /\ pool.period # 0
  /\ ledger.paid > 0
  /\ \E u \in Users :
       /\ Unpacked(u)
       /\ shares[u] > 0
       /\ shares[u] < MaxAmount
       /\ HarvestRun(u).err = "Ok"
       /\ HarvestRun(u).yeild > 0

====
